---------------------------- MODULE Spec2Model ----------------------------
(***************************************************************************)
(* A model of ftp/utils.py: the retry policy, connect_and_login,           *)
(* upload_file, download_file, makedirs, get_unique_file_name_if_exists    *)
(* and the FTPLogErrors guard, run against an FTP server that keeps a      *)
(* directory tree, files and the connection's working directory.           *)
(*                                                                         *)
(* Python strings are sequences of one-character strings, so that          *)
(* splitting, stripping and formatting are computed, not assumed.          *)
(***************************************************************************)
EXTENDS Integers, Sequences, FiniteSets, TLC

VARIABLES
    mkdStrict,  \* the server refuses MKD of an existing directory (RFC 959: 550)
    dirs,       \* the server's directories, each an absolute path (sequence of segments)
    files,      \* the server's files: records [dir, name, data]
    cwd,        \* the connection's working directory on the server
    conn,       \* the ftplib.FTP object: [connected, loggedIn, pasv, closes]
    call,       \* the call in progress or last finished: its operation and arguments
    pc,         \* "idle", "attempt" (the body is about to run), "wait" (sleeping), "done"
    attempts,   \* times the body of the current call has run
    waits,      \* fixed waits the current call has slept
    errs,       \* the error of each failed attempt of the current call, in order
    raised,     \* the error delivered to the caller of the current call
    ret,        \* the value returned by the current call
    log,        \* FTP commands issued during the current call: [cmd, arg, at]
    sink,       \* chunks handed to the caller's download handler during the current call
    lfile,      \* the local destination file of a download: [data, open]
    pre,        \* the server and connection as they were when the current call began
    faults,     \* transport faults the network has injected so far
    hist,       \* the finished calls: [n, first, uniform, ok]
    guard,      \* the FTPLogErrors scope: [pc, body, events, caller]
    lorder,     \* the order in which the server lists names (server-defined)
    other       \* a second client on its own connection: [pc, cwd, name, over]

vars == <<mkdStrict, dirs, files, cwd, conn, call, pc, attempts, waits,
          errs, raised, ret, log, sink, lfile, pre, faults, hist, guard,
          lorder, other>>

---------------------------------------------------------------------------
(* Bounds of the model *)

\* calls made on one connection
MaxCalls == 3
\* transport faults the network injects in one behaviour
MaxFaults == 1
\* files already in the directory when the name resolver is called alone
MaxListed == 3

(* Program constants *)

\* tenacity.stop_after_attempt(3)
StopAfterAttempt == 3
\* tenacity.wait_fixed(5)
WaitFixed == 5

---------------------------------------------------------------------------
(* Python string operations *)

Str(c) == <<c>>

\* str.rfind: the last index of c in p, 0 when absent (Python's -1)
RFind(p, c) ==
    LET hits == {i \in 1..Len(p) : p[i] = c}
    IN  IF hits = {} THEN 0 ELSE CHOOSE i \in hits : \A j \in hits : j <= i

\* os.path.splitext: the extension starts at the last dot of the last path
\* component, unless that component has only dots before it
splitext(p) ==
    LET sepIndex == RFind(p, "/")
        dotIndex == RFind(p, ".")
    IN  IF dotIndex > sepIndex /\ \E i \in (sepIndex + 1)..(dotIndex - 1) : p[i] # "."
        THEN <<SubSeq(p, 1, dotIndex - 1), SubSeq(p, dotIndex, Len(p))>>
        ELSE <<p, <<>>>>

DigitChar(d) ==
    CASE d = 0 -> "0" [] d = 1 -> "1" [] d = 2 -> "2" [] d = 3 -> "3" [] d = 4 -> "4"
      [] d = 5 -> "5" [] d = 6 -> "6" [] d = 7 -> "7" [] d = 8 -> "8" [] d = 9 -> "9"

\* '{}'.format(n) for n >= 0: the decimal digits of n
RECURSIVE FormatInt(_)
FormatInt(n) ==
    IF n < 10 THEN <<DigitChar(n)>> ELSE FormatInt(n \div 10) \o <<DigitChar(n % 10)>>

\* '{}-{}{}'.format(root, suffix, ext)
FormatName(root, suffix, ext) == root \o <<"-">> \o FormatInt(suffix) \o ext

\* os.path.join(a, b)
Join(a, b) ==
    IF b # <<>> /\ Head(b) = "/" THEN b
    ELSE IF a = <<>> \/ a[Len(a)] = "/" THEN a \o b
    ELSE a \o <<"/">> \o b

\* str.strip('/')
RECURSIVE LStrip(_)
LStrip(p) == IF p # <<>> /\ Head(p) = "/" THEN LStrip(Tail(p)) ELSE p

RECURSIVE RStrip(_)
RStrip(p) ==
    IF p # <<>> /\ p[Len(p)] = "/" THEN RStrip(SubSeq(p, 1, Len(p) - 1)) ELSE p

Strip(p) == RStrip(LStrip(p))

\* str.split('/'): one segment more than there are separators, empty ones kept
RECURSIVE SplitFrom(_, _)
SplitFrom(p, cur) ==
    IF p = <<>> THEN <<cur>>
    ELSE IF Head(p) = "/" THEN <<cur>> \o SplitFrom(Tail(p), <<>>)
    ELSE SplitFrom(Tail(p), Append(cur, Head(p)))

Split(p) == SplitFrom(p, <<>>)

---------------------------------------------------------------------------
(* Errors: the exception class and where it was raised *)

NoErr    == [cls |-> "none",       origin |-> "none"]
ErrPerm  == [cls |-> "error_perm", origin |-> "transport"]
ErrTemp  == [cls |-> "error_temp", origin |-> "transport"]
ErrSock  == [cls |-> "OSError",    origin |-> "transport"]
ErrLocal == [cls |-> "OSError",    origin |-> "local"]
ErrSink  == [cls |-> "ValueError", origin |-> "sink"]
ErrRetry == [cls |-> "RetryError", origin |-> "retry"]

\* ftplib.all_errors = (ftplib.Error, OSError, EOFError), by exception class
all_errors == {"error_perm", "error_temp", "OSError", "EOFError"}

\* tenacity.retry_if_exception_type(ftplib.all_errors)
RetryOn(e) == e.cls \in all_errors

---------------------------------------------------------------------------
(* The FTP server and the ftplib client, one command at a time.            *)
(* An attempt threads a record st through its commands:                    *)
(*   dirs, files, cwd, conn, log, sink, lfile  as the variables;           *)
(*   err    the exception in flight (NoErr: none), after which every       *)
(*          later command of the attempt is skipped;                       *)
(*   left   the network fails the left-th command from here (0: none);     *)
(*   cut    chunks a failing RETR delivers before it fails;                *)
(*   hit    the network fault has happened;                                *)
(*   names  the last listing as a set, list  as the list it came as;       *)
(*   ret    the value being returned.                                      *)

Root == <<>>

\* the directory a path names on the server, from working directory at
RECURSIVE Walk(_, _)
Walk(at, segs) ==
    IF segs = <<>> THEN at
    ELSE IF Head(segs) = <<>> THEN Walk(at, Tail(segs))
    ELSE Walk(Append(at, Head(segs)), Tail(segs))

Resolve(at, path) ==
    IF path # <<>> /\ Head(path) = "/" THEN Walk(Root, Split(path)) ELSE Walk(at, Split(path))

Issue(st, cmd, arg) ==
    [st EXCEPT !.log = Append(@, [cmd |-> cmd, arg |-> arg, at |-> st.cwd])]

Tick(st) == [st EXCEPT !.left = IF @ > 0 THEN @ - 1 ELSE 0]

Fail(st, e) == [st EXCEPT !.err = e]

NetFault(st) == [st EXCEPT !.err = ErrTemp, !.left = 0, !.hit = TRUE]

\* a host name that does not resolve, and one that does
InvalidHost == <<"invalidhost">>
StubHost == <<"127.0.0.1">>

\* ftp_client.connect(host, port, timeout)
FtpConnect(st, host) ==
    IF st.err # NoErr THEN st
    ELSE LET s == Issue(st, "CONNECT", host)
         IN  IF host = InvalidHost THEN Fail(s, ErrSock)
             ELSE IF s.left = 1 THEN NetFault(s)
             ELSE [Tick(s) EXCEPT !.conn.connected = TRUE]

\* ftp_client.login(user, passwd)
FtpLogin(st) ==
    IF st.err # NoErr THEN st
    ELSE LET s == Issue(st, "LOGIN", <<>>)
         IN  IF s.left = 1 THEN NetFault(s)
             ELSE [Tick(s) EXCEPT !.conn.loggedIn = TRUE, !.cwd = Root]

\* ftp_client.set_pasv(1): sets the client's flag, sends nothing
FtpSetPasv(st, val) ==
    IF st.err # NoErr THEN st ELSE [st EXCEPT !.conn.pasv = val]

\* ftp_client.cwd(dirname)
FtpCwd(st, path) ==
    IF st.err # NoErr THEN st
    ELSE LET s == Issue(st, "CWD", path)
             to == Resolve(st.cwd, path)
         IN  IF s.left = 1 THEN NetFault(s)
             ELSE IF to \notin s.dirs THEN Fail(Tick(s), ErrPerm)
             ELSE [Tick(s) EXCEPT !.cwd = to]

\* ftp_client.mkd(dirname)
FtpMkd(st, name) ==
    IF st.err # NoErr THEN st
    ELSE LET s == Issue(st, "MKD", name)
             to == Resolve(st.cwd, name)
         IN  IF s.left = 1 THEN NetFault(s)
             ELSE IF to \in s.dirs
                  THEN IF mkdStrict THEN Fail(Tick(s), ErrPerm) ELSE Tick(s)
             ELSE [Tick(s) EXCEPT !.dirs = @ \cup {to}]

\* a set of names as a list, in an order fixed by the names alone
RECURSIVE SomeOrder(_)
SomeOrder(S) ==
    IF S = {} THEN <<>>
    ELSE LET x == CHOOSE y \in S : TRUE IN <<x>> \o SomeOrder(S \ {x})

\* the list the server returns for a set of names: in the server's order
\* lorder, and names that order does not mention after them
Listing(S) ==
    SelectSeq(lorder, LAMBDA n : n \in S)
        \o SomeOrder(S \ {lorder[i] : i \in 1..Len(lorder)})

\* ftp_client.nlst(directory): names is the list as a set, list the list
FtpNlst(st, directory) ==
    IF st.err # NoErr THEN st
    ELSE LET s == Issue(st, "NLST", directory)
             in == Resolve(st.cwd, directory)
             S  == {f.name : f \in {g \in s.files : g.dir = in}}
         IN  IF s.left = 1 THEN NetFault(s)
             ELSE [Tick(s) EXCEPT !.names = S, !.list = Listing(S)]

\* ftp_client.storbinary('STOR name', file): replaces a file of that name
FtpStor(st, name, data) ==
    IF st.err # NoErr THEN st
    ELSE LET s == Issue(st, "STOR", name)
         IN  IF s.left = 1 THEN NetFault(s)
             ELSE [Tick(s) EXCEPT !.files =
                      {f \in @ : ~(f.dir = s.cwd /\ f.name = name)}
                          \cup {[dir |-> s.cwd, name |-> name, data |-> data]}]

\* the directory and the name a path to a file names, from directory at
FileDir(at, path) == Resolve(at, SubSeq(path, 1, RFind(path, "/")))
FileName(path) == LET segs == Split(path) IN segs[Len(segs)]

\* the file a path names, if it is there
Found(st, path) ==
    {f \in st.files : f.dir = FileDir(st.cwd, path) /\ f.name = FileName(path)}

\* RNFR fromname: refused when there is no such file
RenameFrom(st, fromname) ==
    IF st.err # NoErr THEN st
    ELSE LET s == Issue(st, "RNFR", fromname)
         IN  IF s.left = 1 THEN NetFault(s)
             ELSE IF Found(s, fromname) = {} THEN Fail(Tick(s), ErrPerm)
             ELSE Tick(s)

\* the server's files once fromname was renamed to toname
Renamed(st, fromname, toname) ==
    LET f == CHOOSE g \in Found(st, fromname) : TRUE
    IN  {g \in st.files : g # f /\ g \notin Found(st, toname)}
            \cup {[dir |-> FileDir(st.cwd, toname), name |-> FileName(toname),
                   data |-> f.data]}

\* RNTO toname: refused when the directory is not there; replaces a file of
\* that name
RenameTo(st, fromname, toname) ==
    IF st.err # NoErr THEN st
    ELSE LET s == Issue(st, "RNTO", toname)
         IN  IF s.left = 1 THEN NetFault(s)
             ELSE IF FileDir(s.cwd, toname) \notin s.dirs THEN Fail(Tick(s), ErrPerm)
             ELSE [Tick(s) EXCEPT !.files = Renamed(s, fromname, toname)]

\* ftp_client.rename(fromname, toname): RNFR, then RNTO
FtpRename(st, fromname, toname) ==
    RenameTo(RenameFrom(st, fromname), fromname, toname)

\* the download handler: the caller's sink, a sink that raises, or file.write
Deliver(st, handler, chunks) ==
    IF chunks = <<>> THEN st
    ELSE IF handler = "badsink" THEN Fail(st, ErrSink)
    ELSE IF handler = "sink" THEN [st EXCEPT !.sink = @ \o chunks]
    ELSE [st EXCEPT !.lfile.data = @ \o chunks]

\* ftp_client.retrbinary('RETR path', callback)
FtpRetr(st, path, handler) ==
    IF st.err # NoErr THEN st
    ELSE LET s     == Issue(st, "RETR", path)
             segs  == Split(path)
             in    == Resolve(st.cwd, SubSeq(path, 1, RFind(path, "/")))
             found == {f \in s.files : f.dir = in /\ f.name = segs[Len(segs)]}
         IN  IF found = {} THEN Fail(Tick(s), ErrPerm)
             ELSE LET data == (CHOOSE f \in found : TRUE).data
                  IN  IF s.left = 1
                      THEN LET d == Deliver(s, handler, SubSeq(data, 1, s.cut))
                           IN  IF d.err # NoErr THEN d ELSE NetFault(d)
                      ELSE Deliver(Tick(s), handler, data)

---------------------------------------------------------------------------
(* The operations of ftp/utils.py, as one attempt over st *)

\* the while loop of get_unique_file_name_if_exists
RECURSIVE UniqueLoop(_, _, _, _)
UniqueLoop(names, file_name, newname, suffix) ==
    IF newname \in names
    THEN LET re == splitext(file_name)
         IN  UniqueLoop(names, file_name, FormatName(re[1], suffix, re[2]), suffix + 1)
    ELSE newname

UniqueNameFromZero(names, file_name) == UniqueLoop(names, file_name, file_name, 0)

\* suffix = 1; newname = file_name; while newname in names: ...
UniqueName(names, file_name) == UniqueLoop(names, file_name, file_name, 1)

\* list_files: returns the listing
list_files(st, directory) ==
    LET s == FtpNlst(st, directory)
    IN  IF s.err # NoErr THEN s ELSE [s EXCEPT !.ret = s.list]

\* get_unique_file_name_if_exists listing the directory and returning the
\* requested name whatever the listing
get_unique_returns_requested(st, file_name, directory) ==
    LET s == list_files(st, directory)
    IN  IF s.err # NoErr THEN s ELSE [s EXCEPT !.ret = file_name]

get_unique_file_name_if_exists(st, file_name, directory) ==
    LET s == list_files(st, directory)
    IN  IF s.err # NoErr THEN s ELSE [s EXCEPT !.ret = UniqueName(s.names, file_name)]

\* the loop of makedirs with the mkd in a try/except that passes
RECURSIVE MakeEachAnyway(_, _)
MakeEachAnyway(st, subpaths) ==
    IF subpaths = <<>> THEN st
    ELSE LET s == FtpMkd(st, Head(subpaths))
             t == IF st.err = NoErr THEN [s EXCEPT !.err = NoErr] ELSE s
         IN  MakeEachAnyway(FtpCwd(t, Head(subpaths)), Tail(subpaths))

\* for subpath in subpaths: mkd(subpath); cwd(subpath)
RECURSIVE MakeEach(_, _)
MakeEach(st, subpaths) ==
    IF subpaths = <<>> THEN st
    ELSE MakeEach(FtpCwd(FtpMkd(st, Head(subpaths)), Head(subpaths)), Tail(subpaths))

\* makedirs without its last line: the client is left in the leaf it created
makedirs_stays_in_leaf(st, path, base_directory) ==
    MakeEach(FtpCwd(st, base_directory), Split(Strip(path)))

makedirs(st, path, base_directory) ==
    FtpCwd(MakeEach(FtpCwd(st, base_directory), Split(Strip(path))), base_directory)

\* oldpath, newpath = os.path.join(...); ftp_client.rename(oldpath, newpath),
\* st.ret being newname
MoveTo(st, ftp_src_directory, ftp_dst_directory, src_filename) ==
    FtpRename(st, Join(ftp_src_directory, src_filename), Join(ftp_dst_directory, st.ret))

move_file(st, ftp_src_directory, ftp_dst_directory, src_filename, rename_existing) ==
    MoveTo(IF ~rename_existing
           THEN get_unique_file_name_if_exists(st, src_filename, ftp_dst_directory)
           ELSE IF st.err # NoErr THEN st ELSE [st EXCEPT !.ret = src_filename],
           ftp_src_directory, ftp_dst_directory, src_filename)

\* connect_and_login switching to passive mode before it connects
connect_and_login_pasv_first(st, host) ==
    FtpLogin(FtpConnect(FtpSetPasv(st, TRUE), host))

connect_and_login(st, host) == FtpSetPasv(FtpLogin(FtpConnect(st, host)), TRUE)

\* the content of the local file that uploads send
LocalData == <<"data">>

\* upload_file looking at the local file only when it opens it, after the
\* remote directory was made
upload_file_checks_late(st, local_exists, file_name, ftp_directory, rename_existing) ==
    LET s1 == FtpCwd(makedirs(st, ftp_directory, <<"/">>), ftp_directory)
        s2 == IF ~rename_existing
              THEN get_unique_file_name_if_exists(s1, file_name, <<>>)
              ELSE IF s1.err # NoErr THEN s1 ELSE [s1 EXCEPT !.ret = file_name]
    IN  IF s2.err = NoErr /\ ~local_exists THEN Fail(s2, ErrLocal)
        ELSE FtpStor(s2, s2.ret, LocalData)

\* upload_file returning the name it was asked for, not the name it stored
upload_file_returns_requested(st, local_exists, file_name, ftp_directory, rename_existing) ==
    IF ~local_exists THEN Fail(st, ErrLocal)
    ELSE LET s1 == FtpCwd(makedirs(st, ftp_directory, <<"/">>), ftp_directory)
             s2 == IF ~rename_existing
                   THEN get_unique_file_name_if_exists(s1, file_name, <<>>)
                   ELSE IF s1.err # NoErr THEN s1 ELSE [s1 EXCEPT !.ret = file_name]
             s3 == FtpStor(s2, s2.ret, LocalData)
         IN  IF s3.err # NoErr THEN s3 ELSE [s3 EXCEPT !.ret = file_name]

upload_file(st, local_exists, file_name, ftp_directory, rename_existing) ==
    IF ~local_exists THEN Fail(st, ErrLocal)
    ELSE LET s1 == FtpCwd(makedirs(st, ftp_directory, <<"/">>), ftp_directory)
             s2 == IF ~rename_existing
                   THEN get_unique_file_name_if_exists(s1, file_name, <<>>)
                   ELSE IF s1.err # NoErr THEN s1 ELSE [s1 EXCEPT !.ret = file_name]
         IN  FtpStor(s2, s2.ret, LocalData)

\* _download opening the local file without truncating it (mode 'ab')
_download_appends(st, ftp_file_path, handler) ==
    LET s1 == IF st.err = NoErr /\ handler = "none"
              THEN [st EXCEPT !.lfile.open = @ + 1]
              ELSE st
        s2 == FtpRetr(s1, ftp_file_path, handler)
    IN  IF s2.err = NoErr /\ handler = "none"
        THEN [s2 EXCEPT !.lfile.open = @ - 1]
        ELSE s2

\* _download: handler "none" opens the local file for writing and closes it
\* after the transfer; a caller's handler is used as it is
_download(st, ftp_file_path, handler) ==
    LET s1 == IF st.err = NoErr /\ handler = "none"
              THEN [st EXCEPT !.lfile = [data |-> <<>>, open |-> @.open + 1]]
              ELSE st
        s2 == FtpRetr(s1, ftp_file_path, handler)
    IN  IF s2.err = NoErr /\ handler = "none"
        THEN [s2 EXCEPT !.lfile.open = @ - 1]
        ELSE s2

download_file(st, ftp_file_path, handler) == _download(st, ftp_file_path, handler)

\* the name_filter argument: None, or the filter of the tests ('2' not in name)
NameFilter(name_filter, name) ==
    name_filter = "none" \/ \A i \in 1..Len(name) : name[i] # "2"

\* for file in files: if name_filter and not name_filter(file): continue; _download(...)
RECURSIVE DownloadEach(_, _, _, _)
DownloadEach(st, list, name_filter, handler) ==
    IF list = <<>> \/ st.err # NoErr THEN st
    ELSE IF ~NameFilter(name_filter, Head(list))
         THEN DownloadEach(st, Tail(list), name_filter, handler)
         ELSE DownloadEach(_download(st, Head(list), handler), Tail(list),
                           name_filter, handler)

\* download_directory; the local directory is taken to exist or to be creatable
download_directory(st, ftp_directory, name_filter, handler) ==
    LET s1 == list_files(FtpCwd(st, ftp_directory), <<>>)
    IN  DownloadEach(s1, s1.list, name_filter, handler)

---------------------------------------------------------------------------
(* Calls, attempts and the retry policy *)

\* the names and paths the calls are made with
SampleName == <<"a", ".", "t">>
PlainName  == <<"a">>
DotName    == <<".", "a">>
FileNames  == {SampleName, PlainName, DotName}
\* names a directory may already hold when the resolver is called
ListedNames ==
    {SampleName, <<"a", "-", "1", ".", "t">>, <<"a", "-", "2", ".", "t">>,
     <<"a", ".", "t", "-", "1">>, PlainName, <<"a", "-", "1">>,
     DotName, <<".", "a", "-", "1">>}
\* 'test/data/' of the tests, and an absolute path of one directory
TestPath == <<"t", "/", "d", "/">>
BPath    == <<"/", "b">>
RootPath == <<"/">>
\* the remote file's content, chunk by chunk
SampleData == <<"c1", "c2">>
\* '/data' of the tests, the same directory as a relative path, and the
\* names sample.txt, sample.txt1, sample.txt2 in it
DPath    == <<"/", "d">>
DRelPath == <<"d">>
SampleName1 == <<"a", ".", "t", "1">>
SampleName2 == <<"a", ".", "t", "2">>
DirNames == {SampleName, SampleName1, SampleName2}

NoCall ==
    [op |-> "none", host |-> <<>>, local_exists |-> FALSE, file_name |-> <<>>,
     ftp_directory |-> <<>>, base_directory |-> <<>>, rename_existing |-> FALSE,
     ftp_file_path |-> <<>>, handler |-> "none", name_filter |-> "none",
     ftp_src_directory |-> <<>>, ftp_dst_directory |-> <<>>]

\* the time the current call has slept between its attempts
Slept == waits * WaitFixed

\* the retry decorator on every function of the module
WrappedAll(op) == TRUE

\* the functions under the module's retry decorator
Wrapped(op) ==
    op \in {"connect_and_login", "download_file", "upload_file", "download_directory"}

\* one run of the called function's body
Body(c, st) ==
    CASE c.op = "connect_and_login" -> connect_and_login(st, c.host)
      [] c.op = "upload_file" ->
            upload_file(st, c.local_exists, c.file_name, c.ftp_directory, c.rename_existing)
      [] c.op = "download_file" -> download_file(st, c.ftp_file_path, c.handler)
      [] c.op = "download_directory" ->
            download_directory(st, c.ftp_directory, c.name_filter, c.handler)
      [] c.op = "makedirs" -> makedirs(st, c.ftp_directory, c.base_directory)
      [] c.op = "move_file" ->
            move_file(st, c.ftp_src_directory, c.ftp_dst_directory, c.file_name,
                      c.rename_existing)
      [] c.op = "list_files" -> list_files(st, c.ftp_directory)
      [] c.op = "get_unique_file_name_if_exists" ->
            get_unique_file_name_if_exists(st, c.file_name, c.ftp_directory)

Start(left, cut) ==
    [dirs |-> dirs, files |-> files, cwd |-> cwd, conn |-> conn, log |-> log,
     sink |-> sink, lfile |-> lfile, err |-> NoErr, left |-> left, cut |-> cut,
     hit |-> FALSE, names |-> {}, list |-> <<>>, ret |-> <<>>]

\* the commands an attempt issues when the network fails none of them
CommandsOf(c) == Len(Body(c, Start(0, 0)).log) - Len(log)

\* the chunks a failing transfer may deliver before it fails
CutsOf(c) ==
    IF c.op \in {"download_file", "download_directory"}
    THEN 0..(Len(SampleData) - 1)
    ELSE {0}

\* what the retry decorator does with a failed attempt that was the n-th:
\* "raise" the error itself, "stop" with tenacity's RetryError, or "wait"
AfterFailure(op, e, n) ==
    IF ~(Wrapped(op) /\ RetryOn(e)) THEN "raise"
    ELSE IF n >= StopAfterAttempt THEN "stop"
    ELSE "wait"

\* the exception the caller gets when the attempts are exhausted:
\* reraise is not set, so tenacity raises RetryError from the last one
Exhausted(e) == ErrRetry

\* the finished calls, summed up: how many, the first one, whether all were
\* made with the first one's arguments, and whether all returned normally
NoHist == [n |-> 0, first |-> NoCall, uniform |-> TRUE, ok |-> TRUE]

Summary(h, c, ok) ==
    [n       |-> h.n + 1,
     first   |-> IF h.n = 0 THEN c ELSE h.first,
     uniform |-> h.uniform /\ (h.n = 0 \/ c = h.first),
     ok      |-> h.ok /\ ok]

ScopeAllows ==
    \/ guard.pc = "none"
    \/ guard.pc = "in" /\ (pc = "idle" \/ raised = NoErr)

Invoke(c) ==
    /\ pc \in {"idle", "done"}
    /\ hist.n < MaxCalls
    /\ ScopeAllows
    /\ call' = c
    /\ pc' = "attempt"
    /\ attempts' = 0
    /\ waits' = 0
    /\ errs' = <<>>
    /\ raised' = NoErr
    /\ ret' = <<>>
    /\ log' = <<>>
    /\ sink' = <<>>
    /\ pre' = [dirs |-> dirs, files |-> files, cwd |-> cwd]
    /\ UNCHANGED <<mkdStrict, dirs, files, cwd, conn, lfile, faults, hist, guard,
                   lorder, other>>

CallConnect ==
    \E h \in {StubHost, InvalidHost} :
        Invoke([NoCall EXCEPT !.op = "connect_and_login", !.host = h])

CallUpload ==
    \E le \in BOOLEAN, d \in {TestPath, BPath}, re \in BOOLEAN :
        Invoke([NoCall EXCEPT !.op = "upload_file", !.local_exists = le,
                              !.file_name = SampleName, !.ftp_directory = d,
                              !.rename_existing = re])

CallDownload ==
    \E f \in {SampleName, PlainName}, h \in {"none", "sink", "badsink"} :
        Invoke([NoCall EXCEPT !.op = "download_file", !.ftp_file_path = f,
                              !.handler = h])

CallMakedirs ==
    \E d \in {TestPath, BPath, <<"d">>}, b \in {RootPath, BPath} :
        Invoke([NoCall EXCEPT !.op = "makedirs", !.ftp_directory = d,
                              !.base_directory = b])

\* paths with empty segments: '', '/', 't//d', and '/t/' which has none
\* once stripped
OddPaths == {<<>>, <<"/">>, <<"t", "/", "/", "d">>, <<"/", "t", "/">>}

CallMakedirsOdd ==
    \E d \in OddPaths \cup {TestPath} :
        Invoke([NoCall EXCEPT !.op = "makedirs", !.ftp_directory = d,
                              !.base_directory = RootPath])

CallMove ==
    \E re \in BOOLEAN :
        Invoke([NoCall EXCEPT !.op = "move_file", !.ftp_src_directory = RootPath,
                              !.ftp_dst_directory = BPath, !.file_name = SampleName,
                              !.rename_existing = re])

CallList ==
    \E d \in {<<>>, BPath} :
        Invoke([NoCall EXCEPT !.op = "list_files", !.ftp_directory = d])

CallDownloadDir ==
    \E d \in {DPath, DRelPath}, nf \in {"none", "no2"}, h \in {"none", "sink"} :
        Invoke([NoCall EXCEPT !.op = "download_directory", !.ftp_directory = d,
                              !.name_filter = nf, !.handler = h])

CallUnique ==
    \E f \in FileNames :
        Invoke([NoCall EXCEPT !.op = "get_unique_file_name_if_exists", !.file_name = f])

\* the body runs once; the retry decorator decides what follows
Attempt ==
    /\ pc = "attempt"
    /\ \E left \in 0..CommandsOf(call), cut \in CutsOf(call) :
       \E st \in {Body(call, Start(left, cut))} :
          LET n  == attempts + 1
              go == IF st.err = NoErr THEN "return" ELSE AfterFailure(call.op, st.err, n)
          IN  /\ left > 0 => faults < MaxFaults
              /\ dirs' = st.dirs
              /\ files' = st.files
              /\ cwd' = st.cwd
              /\ conn' = st.conn
              /\ log' = st.log
              /\ sink' = st.sink
              /\ lfile' = st.lfile
              /\ faults' = IF st.hit THEN faults + 1 ELSE faults
              /\ attempts' = n
              /\ errs' = IF st.err = NoErr THEN errs ELSE Append(errs, st.err)
              /\ pc' = IF go = "wait" THEN "wait" ELSE "done"
              /\ ret' = IF go = "return" THEN st.ret ELSE <<>>
              /\ raised' = CASE go = "raise" -> st.err
                              [] go = "stop" -> Exhausted(st.err)
                              [] OTHER -> NoErr
              /\ hist' = IF go = "wait" THEN hist
                         ELSE Summary(hist, call, go = "return")
    /\ UNCHANGED <<mkdStrict, call, waits, pre, guard, lorder, other>>

\* tenacity sleeps the fixed wait, then the body runs again
Wait ==
    /\ pc = "wait"
    /\ waits' = waits + 1
    /\ pc' = "attempt"
    /\ UNCHANGED <<mkdStrict, dirs, files, cwd, conn, call, attempts, errs, raised,
                   ret, log, sink, lfile, pre, faults, hist, guard, lorder, other>>

---------------------------------------------------------------------------
(* The FTPLogErrors scope *)

\* FTPLogErrors.__exit__(exc_type, exc_val, exc_tb): what it does, in order,
\* and whether it returns a true value (which would suppress the exception)
\* __exit__ closing first and logging afterwards
GuardExitClosesFirst(exc_val) ==
    [events   |-> <<"close">> \o (IF exc_val # NoErr THEN <<"log">> ELSE <<>>),
     suppress |-> FALSE]

GuardExitDoes(exc_val) ==
    [events   |-> (IF exc_val # NoErr THEN <<"log">> ELSE <<>>) \o <<"close">>,
     suppress |-> FALSE]

NoGuard == [pc |-> "none", events |-> <<>>, exc |-> NoErr, caller |-> NoErr]

\* with FTPLogErrors(ftplib.FTP()) as ftp_client:
GuardEnter ==
    /\ guard.pc = "out"
    /\ guard' = [guard EXCEPT !.pc = "in"]
    /\ UNCHANGED <<mkdStrict, dirs, files, cwd, conn, call, pc, attempts, waits, errs,
                   raised, ret, log, sink, lfile, pre, faults, hist, lorder, other>>

\* the scope ends: the body finished, a call raised, or the body itself raised
GuardExit ==
    /\ guard.pc = "in"
    /\ pc \in {"idle", "done"}
    /\ \E exc \in (IF raised # NoErr THEN {raised} ELSE {NoErr, ErrSink}) :
          LET does == GuardExitDoes(exc)
              n    == Cardinality({i \in 1..Len(does.events) : does.events[i] = "close"})
          IN  /\ guard' = [pc |-> "exited", events |-> does.events, exc |-> exc,
                           caller |-> IF does.suppress THEN NoErr ELSE exc]
              /\ conn' = [conn EXCEPT !.closes = @ + n,
                                      !.connected = IF n > 0 THEN FALSE ELSE @,
                                      !.loggedIn = IF n > 0 THEN FALSE ELSE @]
    /\ UNCHANGED <<mkdStrict, dirs, files, cwd, call, pc, attempts, waits, errs,
                   raised, ret, log, sink, lfile, pre, faults, hist, lorder, other>>

---------------------------------------------------------------------------
(* Initial states and specifications *)

\* no second client
NoOther == [pc |-> "none", cwd |-> Root, seen |-> {}, name |-> <<>>, over |-> FALSE]

LiveConn  == [connected |-> TRUE, loggedIn |-> TRUE, pasv |-> TRUE, closes |-> 0]

InitCall ==
    /\ call = NoCall
    /\ pc = "idle"
    /\ attempts = 0
    /\ waits = 0
    /\ errs = <<>>
    /\ raised = NoErr
    /\ ret = <<>>
    /\ log = <<>>
    /\ sink = <<>>
    /\ lfile = [data |-> <<>>, open |-> 0]
    /\ faults = 0
    /\ hist = NoHist
    /\ lorder = <<>>
    /\ other = NoOther

\* a connection that setUp has logged in, on a server holding /b and /a.t
Init ==
    /\ mkdStrict \in BOOLEAN
    /\ dirs = {Root, <<Str("b")>>}
    /\ files = {[dir |-> Root, name |-> SampleName, data |-> SampleData]}
    /\ cwd \in dirs
    /\ conn = LiveConn
    /\ pre = [dirs |-> dirs, files |-> files, cwd |-> cwd]
    /\ guard = NoGuard
    /\ InitCall

\* a new ftplib.FTP(), not yet connected, about to enter an FTPLogErrors scope
InitGuard ==
    /\ mkdStrict \in BOOLEAN
    /\ dirs = {Root, <<Str("b")>>}
    /\ files = {[dir |-> Root, name |-> SampleName, data |-> SampleData]}
    /\ cwd = Root
    /\ conn \in [connected : {FALSE}, loggedIn : {FALSE}, pasv : BOOLEAN, closes : {0}]
    /\ pre = [dirs |-> dirs, files |-> files, cwd |-> cwd]
    /\ guard = [NoGuard EXCEPT !.pc = "out"]
    /\ InitCall

\* a new ftplib.FTP(), not yet connected, used without a scope
InitConnect ==
    /\ mkdStrict \in BOOLEAN
    /\ dirs = {Root, <<Str("b")>>}
    /\ files = {[dir |-> Root, name |-> SampleName, data |-> SampleData]}
    /\ cwd = Root
    /\ conn \in [connected : {FALSE}, loggedIn : {FALSE}, pasv : BOOLEAN, closes : {0}]
    /\ pre = [dirs |-> dirs, files |-> files, cwd |-> cwd]
    /\ guard = NoGuard
    /\ InitCall

\* a logged-in connection in a directory that holds any few of ListedNames
InitUnique ==
    /\ mkdStrict = TRUE
    /\ dirs = {Root}
    /\ \E S \in SUBSET ListedNames :
          /\ Cardinality(S) <= MaxListed
          /\ files = {[dir |-> Root, name |-> n, data |-> SampleData] : n \in S}
    /\ cwd = Root
    /\ conn = LiveConn
    /\ pre = [dirs |-> dirs, files |-> files, cwd |-> cwd]
    /\ guard = NoGuard
    /\ InitCall

\* every order in which the server may list the names of S
Orders(S) ==
    {o \in [1..Cardinality(S) -> S] : \A i, j \in 1..Cardinality(S) : o[i] = o[j] => i = j}

\* a logged-in connection on a server whose /d holds the three sample files,
\* listed in any order
InitDir ==
    /\ mkdStrict = TRUE
    /\ dirs = {Root, <<Str("d")>>}
    /\ files = {[dir |-> <<Str("d")>>, name |-> n, data |-> SampleData] : n \in DirNames}
    /\ cwd \in dirs
    /\ conn = LiveConn
    /\ pre = [dirs |-> dirs, files |-> files, cwd |-> cwd]
    /\ guard = NoGuard
    /\ call = NoCall
    /\ pc = "idle"
    /\ attempts = 0
    /\ waits = 0
    /\ errs = <<>>
    /\ raised = NoErr
    /\ ret = <<>>
    /\ log = <<>>
    /\ sink = <<>>
    /\ lfile = [data |-> <<>>, open |-> 0]
    /\ faults = 0
    /\ hist = NoHist
    /\ lorder \in Orders(DirNames)
    /\ other = NoOther

NextDir == CallDownloadDir \/ Attempt \/ Wait
SpecDir == InitDir /\ [][NextDir]_vars

\* a new ftplib.FTP() and a server with sample.txt in / and in /d
InitSession ==
    /\ mkdStrict \in BOOLEAN
    /\ dirs = {Root, <<Str("b")>>, <<Str("d")>>}
    /\ files = {[dir |-> d, name |-> SampleName, data |-> SampleData] :
                    d \in {Root, <<Str("d")>>}}
    /\ cwd = Root
    /\ conn \in [connected : {FALSE}, loggedIn : {FALSE}, pasv : BOOLEAN, closes : {0}]
    /\ pre = [dirs |-> dirs, files |-> files, cwd |-> cwd]
    /\ guard = NoGuard
    /\ InitCall

\* connect_and_login, and every operation of the module on the connection
\* once it is logged in
NextSession ==
    \/ CallConnect
    \/ conn.loggedIn /\ CallUpload
    \/ conn.loggedIn /\ CallDownload
    \/ conn.loggedIn /\ CallDownloadDir
    \/ conn.loggedIn /\ CallMakedirs
    \/ conn.loggedIn /\ CallMove
    \/ conn.loggedIn /\ CallList
    \/ conn.loggedIn /\ CallUnique
    \/ Attempt
    \/ Wait
SpecSession == InitSession /\ [][NextSession]_vars

\* The second client uploads sample.txt with rename_existing=False into the
\* directory it is in: lines 99-100 of upload_file ...
OtherList ==
    /\ other.pc = "start"
    /\ other.cwd \in dirs
    /\ LET names == {f.name : f \in {g \in files : g.dir = other.cwd}}
       IN  other' = [other EXCEPT !.pc = "listed", !.seen = names,
                                  !.name = UniqueName(names, SampleName)]
    /\ UNCHANGED <<mkdStrict, dirs, files, cwd, conn, call, pc, attempts, waits, errs,
                   raised, ret, log, sink, lfile, pre, faults, hist, guard, lorder>>

\* ... and line 102, the STOR under the name it chose, some time later
OtherStore ==
    /\ other.pc = "listed"
    /\ files' = {f \in files : ~(f.dir = other.cwd /\ f.name = other.name)}
                    \cup {[dir |-> other.cwd, name |-> other.name, data |-> <<"other">>]}
    /\ other' = [other EXCEPT !.pc = "stored",
                              !.over = \E f \in files : /\ f.dir = other.cwd
                                                        /\ f.name = other.name]
    /\ UNCHANGED <<mkdStrict, dirs, cwd, conn, call, pc, attempts, waits, errs,
                   raised, ret, log, sink, lfile, pre, faults, hist, guard, lorder>>

\* two clients, each on its own logged-in connection; the second one is in
\* the directory both upload to, once that directory is there
InitTwo ==
    /\ mkdStrict \in BOOLEAN
    /\ dirs = {Root, <<Str("b")>>}
    /\ files = {[dir |-> Root, name |-> SampleName, data |-> SampleData]}
    /\ cwd \in dirs
    /\ conn = LiveConn
    /\ pre = [dirs |-> dirs, files |-> files, cwd |-> cwd]
    /\ guard = NoGuard
    /\ call = NoCall
    /\ pc = "idle"
    /\ attempts = 0
    /\ waits = 0
    /\ errs = <<>>
    /\ raised = NoErr
    /\ ret = <<>>
    /\ log = <<>>
    /\ sink = <<>>
    /\ lfile = [data |-> <<>>, open |-> 0]
    /\ faults = 0
    /\ hist = NoHist
    /\ lorder = <<>>
    /\ other \in {[NoOther EXCEPT !.pc = "start", !.cwd = d] :
                     d \in {<<Str("b")>>, <<Str("t"), Str("d")>>}}

NextTwo == CallUpload \/ Attempt \/ Wait \/ OtherList \/ OtherStore
SpecTwo == InitTwo /\ [][NextTwo]_vars

NextSegments == CallMakedirsOdd \/ Attempt
SpecSegments == Init /\ [][NextSegments]_vars

NextUnique == CallUnique \/ Attempt
SpecUnique == InitUnique /\ [][NextUnique]_vars

NextUpload == CallUpload \/ Attempt \/ Wait
SpecUpload == Init /\ [][NextUpload]_vars

NextDownload == CallDownload \/ Attempt \/ Wait
SpecDownload == Init /\ [][NextDownload]_vars

NextMakedirs == CallMakedirs \/ Attempt
SpecMakedirs == Init /\ [][NextMakedirs]_vars

NextConnect == CallConnect \/ Attempt \/ Wait
SpecConnect == InitConnect /\ [][NextConnect]_vars

NextGuard == GuardEnter \/ CallConnect \/ CallUpload \/ Attempt \/ Wait \/ GuardExit
SpecGuard == InitGuard /\ [][NextGuard]_vars

Next == CallConnect \/ CallUpload \/ CallDownload \/ Attempt \/ Wait
Spec == Init /\ [][Next]_vars

---------------------------------------------------------------------------
(* The claims *)

\* the names in a directory of the server
NamesIn(fs, d) == {f.name : f \in {g \in fs : g.dir = d}}

\* root-k.ext written out for the three file names of the model
Variant(N, k) ==
    CASE N = SampleName -> <<"a", "-">> \o FormatInt(k) \o <<".", "t">>
      [] N = PlainName  -> <<"a", "-">> \o FormatInt(k)
      [] N = DotName    -> <<".", "a", "-">> \o FormatInt(k)

\* the directory a path of the model names from the root, written out
DirOf(path) ==
    CASE path = TestPath -> <<Str("t"), Str("d")>>
      [] path = BPath    -> <<Str("b")>>
      [] path = RootPath -> <<>>
      [] path = <<"d">>  -> <<Str("d")>>

Finished(op) == pc = "done" /\ call.op = op
Returned(op) == Finished(op) /\ raised = NoErr

\* C1: get_unique_file_name_if_exists, given name N and listing S, returns a
\* name not in S: N itself when N is not in S, and otherwise root-k.ext for
\* the smallest k >= 1 for which root-k.ext is not in S (so k is at most |S|).
C1_UniqueName ==
    Returned("get_unique_file_name_if_exists") =>
        LET S == NamesIn(pre.files, pre.cwd)
            N == call.file_name
        IN  /\ ret \notin S
            /\ N \notin S => ret = N
            /\ N \in S =>
                  \E k \in 1..Cardinality(S) :
                      /\ ret = Variant(N, k)
                      /\ \A j \in 1..(k - 1) : Variant(N, j) \in S

\* C1 witness: the name and its first variant are taken, the second is returned
C1_Witness ==
    /\ Returned("get_unique_file_name_if_exists")
    /\ call.file_name = SampleName
    /\ {SampleName, Variant(SampleName, 1)} \subseteq NamesIn(pre.files, pre.cwd)
    /\ ret = <<"a", "-", "2", ".", "t">>

\* the calls so far were n uploads of the same existing local file to the same
\* directory, which the server did not have at first, with no network fault
SameUploads(n) ==
    /\ pc = "done"
    /\ hist.n = n
    /\ hist.uniform
    /\ hist.first.op = "upload_file"
    /\ hist.first.local_exists
    /\ hist.first.ftp_directory = TestPath
    /\ faults = 0

\* C2: n uploads in a row (n = 1..3) of the same local file to the same, at
\* first missing, directory all complete and leave n names in the directory
\* when rename_existing is false, and 1 name when it is true.
C2_RepeatedUploads ==
    \A n \in 1..3 :
        SameUploads(n) =>
            /\ hist.ok
            /\ Cardinality(NamesIn(files, DirOf(TestPath)))
                   = IF hist.first.rename_existing THEN 1 ELSE n

\* C3: upload_file of a missing local file makes exactly one attempt, waits
\* zero times, and the local precondition error reaches the caller.
C3_LocalErrorNotRetried ==
    (Finished("upload_file") /\ ~call.local_exists) =>
        /\ attempts = 1
        /\ waits = 0
        /\ Slept = 0
        /\ raised = ErrLocal

\* C4: upload_file of a missing local file ends in an error and issues no FTP
\* command in any attempt: directories, files and the working directory are
\* as they were before the call.
C4_NoRemoteEffect ==
    (call.op = "upload_file" /\ ~call.local_exists) =>
        /\ log = <<>>
        /\ dirs = pre.dirs
        /\ files = pre.files
        /\ cwd = pre.cwd
        /\ pc = "done" => raised # NoErr

\* C4 witness: such a call has ended, after an earlier upload had stored a file
C4_Witness ==
    /\ Finished("upload_file")
    /\ ~call.local_exists
    /\ attempts = StopAfterAttempt
    /\ hist.n = 2
    /\ NamesIn(files, DirOf(TestPath)) # {}

\* C5: a retry-wrapped call runs its body at most 3 times; an attempt after
\* the first starts only after a transport error and one wait; the call
\* returns at the first successful attempt; and when every attempt fails with
\* a transport error it ends after exactly 3 attempts and 2 waits.
C5_RetrySchedule ==
    Wrapped(call.op) =>
        /\ attempts <= 3
        /\ \A i \in 1..Len(errs) : i < attempts => errs[i].origin = "transport"
        /\ pc = "attempt" => waits = attempts /\ Len(errs) = attempts
        /\ pc = "wait" => waits = attempts - 1 /\ Len(errs) = attempts
        /\ (pc = "done" /\ raised = NoErr) => Len(errs) = attempts - 1
        /\ (pc = "done" /\ Len(errs) = attempts
               /\ \A i \in 1..Len(errs) : errs[i].origin = "transport")
              => attempts = 3 /\ waits = 2 /\ Slept = 10

\* C6: when all 3 attempts of a retry-wrapped call fail with a transport
\* error, the caller gets the transport error of the last attempt.
C6_LastErrorPropagates ==
    (/\ pc = "done"
     /\ Wrapped(call.op)
     /\ Len(errs) = 3
     /\ \A i \in 1..3 : errs[i].origin = "transport")
        => raised = errs[3]

\* the MKD commands of the log, in order
RECURSIVE Mkds(_)
Mkds(l) ==
    IF l = <<>> THEN <<>>
    ELSE IF Head(l).cmd = "MKD" THEN <<Head(l)>> \o Mkds(Tail(l))
    ELSE Mkds(Tail(l))

C8_UploadEndsInTarget ==
    Returned("upload_file") =>
        LET target == DirOf(call.ftp_directory)
            last   == log[Len(log)]
        IN  /\ cwd = target
            /\ last.cmd = "STOR"
            /\ last.arg = ret
            /\ last.at = target
            /\ [dir |-> target, name |-> ret, data |-> LocalData] \in files

\* C8 witness: a second upload from /b, stored under the first variant name
C8_Witness ==
    /\ Returned("upload_file")
    /\ pre.cwd = <<Str("b")>>
    /\ call.ftp_directory = TestPath
    /\ ret = Variant(SampleName, 1)
    /\ cwd = DirOf(TestPath)

\* C9: the scope closes the connection exactly once on exit, normal or not;
\* on the error path the error is logged before the close; nothing is logged
\* on normal exit; and the error reaches the scope's caller unchanged.
C9_GuardClosesOnce ==
    /\ guard.pc \in {"out", "in"} => conn.closes = 0
    /\ guard.pc = "exited" =>
          /\ conn.closes = 1
          /\ ~conn.connected
          /\ guard.exc = NoErr => guard.events = <<"close">>
          /\ guard.exc # NoErr => guard.events = <<"log", "close">>
          /\ guard.caller = guard.exc
          /\ raised # NoErr => guard.caller = raised

\* C9 witness: the scope was left by the error of a failed connect_and_login
C9_Witness ==
    /\ guard.pc = "exited"
    /\ call.op = "connect_and_login"
    /\ raised # NoErr
    /\ guard.caller = raised
    /\ guard.events = <<"log", "close">>

\* C10: when download_file with a caller's sink returns normally, the chunks
\* the sink got during the call are exactly the remote file's content, also
\* after attempts that failed in mid-transfer.
C10_SinkGetsContent ==
    (Returned("download_file") /\ call.handler = "sink") => sink = SampleData

\* the arguments of the RETR commands of the log, in order
RECURSIVE Retrs(_)
Retrs(l) ==
    IF l = <<>> THEN <<>>
    ELSE IF Head(l).cmd = "RETR" THEN <<Head(l).arg>> \o Retrs(Tail(l))
    ELSE Retrs(Tail(l))

\* C11: when download_directory returns normally the working directory is
\* the source directory, and the RETR commands of the call are one per name
\* of the listing that the filter accepts (every name when there is no
\* filter), in the listing's order, and none for a rejected name.
C11_OneRetrPerAcceptedName ==
    Returned("download_directory") =>
        LET L == SelectSeq(lorder, LAMBDA n : n \in NamesIn(files, <<Str("d")>>))
            accepted == SelectSeq(L, LAMBDA n : call.name_filter = "none" \/ n # SampleName2)
        IN  /\ cwd = <<Str("d")>>
            /\ Retrs(log) = accepted

\* C17: a download attempt leaves no local file open that it opened itself,
\* whether the retrieve succeeded or failed; with a caller's sink the attempt
\* opens no local file and leaves the local file alone.
C17_LocalFileClosed ==
    [][(pc = "attempt" /\ call.op = "download_file" /\ attempts' = attempts + 1) =>
          IF call.handler = "none"
          THEN lfile'.open = lfile.open
          ELSE lfile' = lfile]_vars

\* C18: when download_file with the default sink returns normally, the local
\* file holds exactly the remote file's content, also after attempts that
\* failed: every attempt starts from an empty file.
C18_LocalFileHoldsContent ==
    (Returned("download_file") /\ call.handler = "none") => lfile.data = SampleData

\* the default sink got the whole content in a second attempt, after a first
\* attempt that failed and left its file handle behind
C18_Witness ==
    /\ Returned("download_file")
    /\ call.handler = "none"
    /\ attempts = 2
    /\ errs[1].origin = "transport"
    /\ lfile = [data |-> SampleData, open |-> 1]

\* a STOR of the call that was followed by further commands: it failed, and
\* the directories had been created before it
StorFailed == \E i \in 1..(Len(log) - 1) : log[i].cmd = "STOR"

\* C16: on a server that refuses MKD of an existing directory, an upload_file
\* call one attempt of which failed in STOR, after the directories had been
\* created, returns normally from a later attempt and the file is stored.
C16_StorFailureRecovered ==
    (Finished("upload_file") /\ mkdStrict /\ StorFailed) =>
        /\ raised = NoErr
        /\ attempts <= StopAfterAttempt
        /\ ret \in NamesIn(files, DirOf(call.ftp_directory))

\* an MKD of the call named a directory that was there before the call, on
\* a server that refuses that
MkdRefused ==
    /\ mkdStrict
    /\ \E i \in 1..Len(log) :
          log[i].cmd = "MKD" /\ Append(log[i].at, log[i].arg) \in pre.dirs

\* C15: when an MKD fails in a direct makedirs call, that error is raised at
\* once, after one attempt and no wait; the MKD is the call's last command
\* (no further MKD or CWD, no CWD back to the base directory), the working
\* directory is where the MKD was issued, and the directories made for the
\* segments before it are still there.
C15_MkdFailurePropagates ==
    (Finished("makedirs") /\ Len(log) > 0 /\
     (MkdRefused \/ (raised # NoErr /\ log[Len(log)].cmd = "MKD"))) =>
        LET last == log[Len(log)]
            mk   == Mkds(log)
        IN  /\ last.cmd = "MKD"
            /\ attempts = 1
            /\ waits = 0
            /\ errs = <<raised>>
            /\ raised \in {ErrPerm, ErrTemp, ErrSock}
            /\ cwd = last.at
            /\ \A i \in 1..(Len(mk) - 1) : Append(mk[i].at, mk[i].arg) \in dirs

\* C15 witness: 'test/data/' under "/", the MKD of the second segment
\* failed: test was made and is the working directory
C15_Witness ==
    /\ Finished("makedirs")
    /\ raised # NoErr
    /\ call.ftp_directory = TestPath
    /\ Len(Mkds(log)) = 2
    /\ log[Len(log)].cmd = "MKD"
    /\ <<Str("t")>> \in dirs \ pre.dirs
    /\ cwd = <<Str("t")>>

\* the non-empty segments of a path
Segments(path) == SelectSeq(Split(path), LAMBDA x : x # <<>>)

\* C14: whatever the path given to makedirs (empty, "/", with leading,
\* trailing or consecutive separators), no MKD and no CWD into a segment is
\* issued with an empty name, and a call that returns normally has issued
\* as many MKDs as the path has non-empty segments.
C14_OnlyNonEmptySegments ==
    Finished("makedirs") =>
        /\ \A i \in 1..Len(log) :
              /\ log[i].cmd = "MKD" => log[i].arg # <<>>
              /\ (i > 1 /\ log[i].cmd = "CWD" /\ log[i - 1].cmd = "MKD") =>
                    log[i].arg # <<>>
        /\ raised = NoErr => Len(Mkds(log)) = Len(Segments(call.ftp_directory))

\* the operations that carry the retry decorator
Decorated == {"connect_and_login", "download_file", "upload_file", "download_directory"}

\* the call's first attempt failed with an error of the FTP client
FirstFailedInTransport == errs # <<>> /\ errs[1].origin = "transport"

\* C12 as stated: a call whose attempt failed with an error of the FTP
\* client was attempted again before an error reached the caller, whatever
\* the operation.
C12_EveryOperationRetries ==
    (pc = "done" /\ FirstFailedInTransport) => attempts > 1

\* C12, amended: an error of the FTP client is retried, up to 3 attempts with
\* the fixed wait between them, in connect_and_login, upload_file,
\* download_file and download_directory; move_file, list_files,
\* get_unique_file_name_if_exists and makedirs called directly raise it to
\* the caller after one attempt and no wait.
C12_OnlyDecoratedRetry ==
    (pc = "done" /\ FirstFailedInTransport) =>
        IF call.op \in Decorated
        THEN /\ attempts > 1
             /\ attempts <= StopAfterAttempt
             /\ waits = attempts - 1
             /\ (raised # NoErr /\ \A i \in 1..Len(errs) : errs[i].origin = "transport")
                    => attempts = StopAfterAttempt
        ELSE /\ attempts = 1
             /\ waits = 0
             /\ raised = errs[1]

\* C12 witness: the rename of move_file failed and the error reached the
\* caller at once
C12_Witness ==
    /\ Finished("move_file")
    /\ FirstFailedInTransport
    /\ log[Len(log)].cmd \in {"RNFR", "RNTO"}
    /\ attempts = 1
    /\ raised = errs[1]

\* the commands of a connect_and_login call are CONNECT and LOGIN, and every
\* LOGIN directly follows a CONNECT of the same attempt
ConnectThenLogin ==
    \A i \in 1..Len(log) :
        /\ log[i].cmd \in {"CONNECT", "LOGIN"}
        /\ log[i].cmd = "LOGIN" => (i > 1 /\ log[i - 1].cmd = "CONNECT")

\* C13: in connect_and_login a login is issued only after a connect that
\* succeeded, and passive mode is switched on only after a login that
\* succeeded; when connect_and_login returns normally the passive-mode flag
\* is on, and no step of any operation of the module switches it off: the
\* flag changes only by being switched on in an attempt of connect_and_login
\* that returns normally.
C13_PassiveAfterLogin ==
    /\ [](call.op = "connect_and_login" => ConnectThenLogin)
    /\ [](Returned("connect_and_login") =>
             conn.connected /\ conn.loggedIn /\ conn.pasv)
    /\ [][conn'.pasv # conn.pasv =>
             /\ call.op = "connect_and_login"
             /\ conn'.pasv
             /\ pc' = "done" /\ raised' = NoErr
             /\ log'[Len(log')].cmd = "LOGIN"]_vars

\* C13 witness: after a connect_and_login that returned normally, two more
\* operations ran on the connection, the last a move_file, and passive mode
\* is on
C13_Witness ==
    /\ hist.n = 3
    /\ hist.first.op = "connect_and_login"
    /\ hist.ok
    /\ Returned("move_file")
    /\ conn.pasv

=============================================================================
